---- MODULE Spec2Model ----
(***************************************************************************)
(* Model of the Blender scripts of the repository:                         *)
(*   Assets/ModelScripts/pbr_grid.py          (two grids, then export)     *)
(*   Assets/Models/pbr_sphere_gen.py          (one grid, then export)      *)
(*   Examples/SharedAssets/ModelScripts/blender_gltf_export.py             *)
(*   Assets/Models/blender_gltf_export.py                                  *)
(*                                                                         *)
(* The host's data (bpy.data.objects / meshes / materials), the working    *)
(* directory and the path of the open document are the state.  Strings are *)
(* TLA+ strings; Python's string functions are operators over them.        *)
(*                                                                         *)
(* Units.  Material parameters are kept in tenths (1.0 is 10), locations   *)
(* in quarters (2.5 is 10): every value the scripts compute is a whole     *)
(* number of these units.                                                  *)
(***************************************************************************)
EXTENDS Integers, Sequences, FiniteSets, TLC

VARIABLES
    cwd,          \* os.getcwd()
    filepath,     \* bpy.data.filepath, "" for a document never saved
    objects,      \* bpy.data.objects
    meshes,       \* bpy.data.meshes
    materials,    \* bpy.data.materials
    active,       \* bpy.context.view_layer.objects.active
    script,       \* the script being run
    pc,           \* its position
    axis_call,    \* pbr_grid.py: which call of axis() is running (1 or 2)
    z,            \* outer loop variable
    x,            \* inner loop variable
    filename_without_extension,  \* Examples blender_gltf_export.py
    output_file,  \* Examples blender_gltf_export.py: output_file
    export_gltf,  \* Examples blender_gltf_export.py: export_gltf
    cells,        \* the cells generated by this run, with the names asked for
    calls,        \* the host operations of this run, in order
    exported,     \* the calls of bpy.ops.export_scene.gltf of this run
    stdout,       \* what this run printed
    runs,         \* generator runs started
    result,       \* scene left by the last finished generator run
    prev          \* scene left by the generator run before it

vars == <<cwd, filepath, objects, meshes, materials, active, script, pc,
          axis_call, z, x, filename_without_extension, output_file, export_gltf, cells, calls, exported,
          stdout, runs, result, prev>>

\* Generator runs in one session of the host.
MaxGenRuns == 2

-----------------------------------------------------------------------------
(* Python string functions *)

Max(S) == CHOOSE m \in S : \A n \in S : n <= m

Min(S) == CHOOSE m \in S : \A n \in S : m <= n

\* s[i:j] with 1-based, inclusive bounds; "" when empty
Slice(s, i, j) == IF i > j THEN "" ELSE SubSeq(s, i, j)

\* s.rfind(c) for a one-character c, 1-based, 0 when absent
rfind(s, c) ==
    LET hits == {i \in 1..Len(s) : SubSeq(s, i, i) = c}
    IN IF hits = {} THEN 0 ELSE Max(hits)

\* s.startswith(prefix)
startswith(s, prefix) ==
    /\ Len(prefix) <= Len(s)
    /\ Slice(s, 1, Len(prefix)) = prefix

\* os.path.basename(p)
basename(p) == Slice(p, rfind(p, "/") + 1, Len(p))

\* os.path.splitext(p)[0]: the extension starts at the last dot of the last
\* component, unless only dots precede it there
splitext_root(p) ==
    LET sep == rfind(p, "/")
        dot == rfind(p, ".")
    IN IF dot > sep /\ \E i \in (sep + 1)..(dot - 1) : SubSeq(p, i, i) # "."
       THEN Slice(p, 1, dot - 1)
       ELSE p

RECURSIVE replace_from(_, _, _, _)
replace_from(s, old, new, i) ==
    IF i > Len(s) THEN ""
    ELSE IF i + Len(old) - 1 <= Len(s) /\ SubSeq(s, i, i + Len(old) - 1) = old
         THEN new \o replace_from(s, old, new, i + Len(old))
         ELSE SubSeq(s, i, i) \o replace_from(s, old, new, i + 1)

\* s.replace(old, new): every occurrence, left to right
replace(s, old, new) == replace_from(s, old, new, 1)

\* str(n)
str(n) == ToString(n)

-----------------------------------------------------------------------------
(* The host's data blocks *)

None == "None"

ObjectNames == {o.name : o \in objects}

MeshNames == {m.name : m \in meshes}

MaterialNames == {m.name : m \in materials}

\* ".001", ".002", ...
NumberSuffix(k) ==
    "." \o (IF k < 10 THEN "00" ELSE IF k < 100 THEN "0" ELSE "") \o ToString(k)

\* bpy.data.<collection>.new(name): the name given to the new data block.  A
\* name already in the collection gets the first free numeric suffix.
UniqueName(name, used) ==
    IF name \notin used THEN name
    ELSE name \o NumberSuffix(
             Min({k \in 1..(Cardinality(used) + 1) :
                     (name \o NumberSuffix(k)) \notin used}))

\* bpy.ops.object.select_all(action=...): acts on the objects of the scene
select_all(objs, action) ==
    {[o EXCEPT !.select = (action = "SELECT" /\ o.users_scene)] : o \in objs}

\* bpy.ops.object.delete(): the selected objects leave the scene and the data
object_delete(objs) == {o \in objs : ~o.select}

\* bpy.data.batch_remove(ids)
batch_remove(objs, ids) == objs \ ids

-----------------------------------------------------------------------------
(* Settings and the per-cell computations of the generator scripts *)

\* pbr_grid.py: entries_per_axis = 11
entries_per_axis == 11

\* pbr_grid.py: spacing = 2.5, in quarters
grid_spacing == 10

\* pbr_sphere_gen.py: entries = 11
entries == 11

\* pbr_sphere_gen.py: spacing = 2.5, in quarters
spacing == 10

\* The index name without its z part
idx_name_x_only(xx, zz) == "x" \o str(xx)

\* The index name with x written where z belongs
idx_name_x_twice(xx, zz) == "x" \o str(xx) \o "_z" \o str(xx)

\* idx_name = "x" + str(x) + "_z" + str(z)
idx_name(xx, zz) == "x" \o str(xx) \o "_z" \o str(zz)

\* z / 10 taken as a floor division
roughness_floor_division(zz, n) ==
    IF zz = 0 THEN 0 ELSE IF zz = n - 1 THEN 10 ELSE (zz \div 10) * 10

\* mat.roughness = 0.0 if z == 0.0 else 1.0 if z == n - 1 else z / 10, in tenths
roughness(zz, n) == IF zz = 0 THEN 0 ELSE IF zz = n - 1 THEN 10 ELSE zz

\* x / 10 without the "1.0 -"
metallic_not_inverted(xx, n) ==
    IF xx = 0 THEN 10 ELSE IF xx = n - 1 THEN 0 ELSE xx

\* mat.metallic = 1.0 if x == 0.0 else 0.0 if x == n - 1 else 1.0 - x / 10, in tenths
metallic(xx, n) == IF xx = 0 THEN 10 ELSE IF xx = n - 1 THEN 0 ELSE 10 - xx

\* The location without the half spacing that centres the grid
location_without_half_spacing(i, n, sp) == ((2 * i - n) * sp) \div 2

\* (i - n / 2) * spacing + spacing / 2, in quarters: (i - n/2) * sp is
\* (2i - n) * sp / 2, and sp is even
location(i, n, sp) == ((2 * i - n) * sp) \div 2 + sp \div 2

\* bmesh.ops.create_uvsphere(...) if spheres else bmesh.ops.create_cube(bm)
geometry(spheres) == IF spheres THEN "uvsphere_16_16_r1" ELSE "cube"

\* bpy.ops.object.shade_smooth(): the meshes of the selected objects
shade_smooth(ms, objs) ==
    LET sel == {o.data : o \in {p \in objs : p.select}}
    IN {IF m.name \in sel THEN [m EXCEPT !.smooth = TRUE] ELSE m : m \in ms}

\* What the scene holds: every object of the scene with its place and the
\* materials of its mesh
Scene ==
    {[name |-> o.name, location |-> o.location,
      materials |-> (CHOOSE m \in meshes : m.name = o.data).materials] :
        o \in {p \in objects : p.users_scene}}

NoScene == [script |-> None, scene |-> {}]

-----------------------------------------------------------------------------
(* The documents the host may have open when a script is run *)

NoObjects == {}

DefaultObjects ==
    {[name |-> "Cube", data |-> "Cube", location |-> <<0, 0, 0>>,
      users_scene |-> TRUE, select |-> TRUE, modifiers |-> <<>>]}

DefaultMeshes ==
    {[name |-> "Cube", materials |-> <<"Material">>, geometry |-> "cube",
      smooth |-> FALSE]}

DefaultMaterials == {[name |-> "Material", roughness |-> 5, metallic |-> 0]}

\* A document that keeps a sphere of an earlier grid, hidden from the scene
KeptObjects ==
    {[name |-> "Sphere_x0_z0", data |-> "Sphere_x0_z0",
      location |-> <<-50, 0, -50>>, users_scene |-> FALSE, select |-> FALSE,
      modifiers |-> <<"SUBSURF">>]}

KeptMeshes ==
    {[name |-> "Sphere_x0_z0", materials |-> <<"Material_x0_z0">>,
      geometry |-> "uvsphere_16_16_r1", smooth |-> TRUE]}

KeptMaterials == {[name |-> "Material_x0_z0", roughness |-> 0, metallic |-> 10]}

Documents ==
    {[filepath |-> "/proj/TestScene.blend", objects |-> DefaultObjects,
      meshes |-> DefaultMeshes, materials |-> DefaultMaterials],
     [filepath |-> "/proj/Level01.blend", objects |-> KeptObjects,
      meshes |-> KeptMeshes, materials |-> KeptMaterials],
     [filepath |-> "/out/testing.blend", objects |-> NoObjects,
      meshes |-> {}, materials |-> {}],
     [filepath |-> "/a.blend/Test.v2.blend", objects |-> NoObjects,
      meshes |-> {}, materials |-> {}],
     [filepath |-> "", objects |-> DefaultObjects,
      meshes |-> DefaultMeshes, materials |-> DefaultMaterials]}

WorkingDirectories == {"/out", "/proj"}

Init ==
    /\ cwd \in WorkingDirectories
    /\ \E d \in Documents :
          /\ filepath = d.filepath
          /\ objects = d.objects
          /\ meshes = d.meshes
          /\ materials = d.materials
    /\ active = None
    /\ script = None
    /\ pc = "idle"
    /\ axis_call = 0
    /\ z = 0
    /\ x = 0
    /\ filename_without_extension = None
    /\ output_file = None
    /\ export_gltf = FALSE
    /\ cells = {}
    /\ calls = <<>>
    /\ exported = <<>>
    /\ stdout = <<>>
    /\ runs = 0
    /\ result = NoScene
    /\ prev = NoScene

\* The host runs one script at a time, each in a fresh namespace
Idle == pc \in {"idle", "done"}

Launch(s, start) ==
    /\ Idle
    /\ script' = s
    /\ pc' = start
    /\ axis_call' = 0
    /\ z' = 0
    /\ x' = 0
    /\ output_file' = None
    /\ cells' = {}

-----------------------------------------------------------------------------
(* Steps shared by the two generator scripts *)

\* The clear block: deselect all, select all, delete, then remove the objects
\* that no scene uses
clear_objects(objs) ==
    LET deselected == select_all(objs, "DESELECT")
        selected == select_all(deselected, "SELECT")
        kept == object_delete(selected)
    IN batch_remove(kept, {o \in kept : ~o.users_scene})

\* One pass of the loop body for cell (x, z)
GenerateCell(call, n, sp, offset_y, spheres) ==
    LET idx == idx_name(x, z)
        mesh_name == "Sphere_" \o idx
        object_name == "Sphere_" \o idx
        material_name == "Material_" \o idx
        mesh == UniqueName(mesh_name, MeshNames)
        object == UniqueName(object_name, ObjectNames)
        mat == UniqueName(material_name, MaterialNames)
        new_object == [name |-> object, data |-> mesh,
                       location |-> <<location(x, n, sp), offset_y,
                                      location(z, n, sp)>>,
                       users_scene |-> TRUE, select |-> TRUE,
                       modifiers |-> <<"SUBSURF">>]
        new_mesh == [name |-> mesh, materials |-> <<mat>>,
                     geometry |-> geometry(spheres), smooth |-> FALSE]
        new_material == [name |-> mat, roughness |-> roughness(z, n),
                         metallic |-> metallic(x, n)]
    IN /\ objects' = objects \cup {new_object}
       /\ meshes' = shade_smooth(meshes \cup {new_mesh}, objects')
       /\ materials' = materials \cup {new_material}
       /\ active' = object
       /\ cells' = cells \cup
              {[axis |-> call, x |-> x, z |-> z, mesh_name |-> mesh_name,
                object_name |-> object_name, material_name |-> material_name,
                object |-> object, mesh |-> mesh, material |-> mat]}
       /\ calls' = Append(calls, "objects.new")

\* bpy.ops.export_scene.gltf(export_format=..., filepath=...)
export_scene_gltf(export_format, path) ==
    /\ exported' = Append(exported, [export_format |-> export_format,
                                      filepath |-> path])
    /\ calls' = Append(calls, "export_scene.gltf")

\* Where the loop stands after the body ran for (x, z): the next cell in
\* range(0, n) x range(0, n), z outside and x inside, or the end of the loop
LoopDone(n) == x = n - 1 /\ z = n - 1

NextCell(n) ==
    IF x < n - 1 THEN x' = x + 1 /\ z' = z ELSE x' = 0 /\ z' = z + 1

-----------------------------------------------------------------------------
(* Assets/ModelScripts/pbr_grid.py *)

PbrGrid == "Assets/ModelScripts/pbr_grid.py"

\* main() going on to export() after its first call of axis()
main_axis_calls_first_only == <<[offset_y |-> 20, spheres |-> TRUE]>>

\* main(): axis(offset_y=5, spheres=True); axis(offset_y=-5, spheres=False)
main_axis_calls ==
    <<[offset_y |-> 20, spheres |-> TRUE], [offset_y |-> -20, spheres |-> FALSE]>>

\* main() up to its call of clear()
PbrGridMain ==
    /\ runs < MaxGenRuns
    /\ Launch(PbrGrid, "clear")
    /\ filename_without_extension' = None
    /\ export_gltf' = FALSE
    /\ runs' = runs + 1
    /\ prev' = result
    /\ calls' = <<>>
    /\ exported' = <<>>
    /\ stdout' = <<"### START ###">>
    /\ UNCHANGED <<cwd, filepath, objects, meshes, materials, active, result>>

\* clear()
PbrGridClear ==
    /\ script = PbrGrid
    /\ pc = "clear"
    /\ objects' = clear_objects(objects)
    /\ active' = None
    /\ calls' = Append(calls, "object.delete")
    /\ pc' = "axis"
    /\ axis_call' = 1
    /\ UNCHANGED <<cwd, filepath, meshes, materials, script, z, x,
                   filename_without_extension, output_file, export_gltf, cells,
                   exported, stdout, runs, result, prev>>

\* One pass of the loop body of axis(), for the current call of axis()
PbrGridAxisCell ==
    /\ script = PbrGrid
    /\ pc = "axis"
    /\ GenerateCell(axis_call, entries_per_axis, grid_spacing,
                    main_axis_calls[axis_call].offset_y,
                    main_axis_calls[axis_call].spheres)
    /\ IF ~LoopDone(entries_per_axis)
       THEN /\ NextCell(entries_per_axis)
            /\ UNCHANGED <<pc, axis_call>>
       ELSE /\ x' = 0
            /\ z' = 0
            /\ IF axis_call < Len(main_axis_calls)
               THEN axis_call' = axis_call + 1 /\ pc' = pc
               ELSE axis_call' = axis_call /\ pc' = "export"
    /\ UNCHANGED <<cwd, filepath, script, filename_without_extension,
                   output_file, export_gltf, exported, stdout, runs, result,
                   prev>>

\* export(): export_path = cwd + "/PBR_Grid.glb"
pbr_grid_export_path == cwd \o "/PBR_Grid.glb"

\* export() and the end of main()
PbrGridExport ==
    /\ script = PbrGrid
    /\ pc = "export"
    /\ export_scene_gltf("GLB", pbr_grid_export_path)
    /\ stdout' = Append(stdout, "### FINISHED ###")
    /\ pc' = "done"
    /\ result' = [script |-> script, scene |-> Scene]
    /\ UNCHANGED <<cwd, filepath, objects, meshes, materials, active, script,
                   axis_call, z, x, filename_without_extension, output_file,
                   export_gltf, cells, runs, prev>>

-----------------------------------------------------------------------------
(* Assets/Models/pbr_sphere_gen.py *)

SphereGen == "Assets/Models/pbr_sphere_gen.py"

\* The imports and settings
SphereGenSettings ==
    /\ runs < MaxGenRuns
    /\ Launch(SphereGen, "clear")
    /\ filename_without_extension' = None
    /\ export_gltf' = FALSE
    /\ runs' = runs + 1
    /\ prev' = result
    /\ calls' = <<>>
    /\ exported' = <<>>
    /\ stdout' = <<>>
    /\ UNCHANGED <<cwd, filepath, objects, meshes, materials, active, result>>

\* The clear block
SphereGenClear ==
    /\ script = SphereGen
    /\ pc = "clear"
    /\ objects' = clear_objects(objects)
    /\ active' = None
    /\ calls' = Append(calls, "object.delete")
    /\ pc' = "generate"
    /\ axis_call' = 1
    /\ UNCHANGED <<cwd, filepath, meshes, materials, script, z, x,
                   filename_without_extension, output_file, export_gltf, cells,
                   exported, stdout, runs, result, prev>>

\* One pass of the loop body; location.y is left at 0
SphereGenCell ==
    /\ script = SphereGen
    /\ pc = "generate"
    /\ GenerateCell(axis_call, entries, spacing, 0, TRUE)
    /\ IF ~LoopDone(entries)
       THEN NextCell(entries) /\ pc' = pc
       ELSE x' = 0 /\ z' = 0 /\ pc' = "export"
    /\ UNCHANGED <<cwd, filepath, script, axis_call,
                   filename_without_extension, output_file, export_gltf,
                   exported, stdout, runs, result, prev>>

\* export_path = cwd + "/PBR_Spheres.glb"
sphere_gen_export_path == cwd \o "/PBR_Spheres.glb"

\* The export
SphereGenExport ==
    /\ script = SphereGen
    /\ pc = "export"
    /\ export_scene_gltf("GLB", sphere_gen_export_path)
    /\ pc' = "done"
    /\ result' = [script |-> script, scene |-> Scene]
    /\ UNCHANGED <<cwd, filepath, objects, meshes, materials, active, script,
                   axis_call, z, x, filename_without_extension, output_file,
                   export_gltf, cells, stdout, runs, prev>>

-----------------------------------------------------------------------------
(* Examples/SharedAssets/ModelScripts/blender_gltf_export.py *)

ExamplesExport == "Examples/SharedAssets/ModelScripts/blender_gltf_export.py"

\* os.path.splitext(os.path.basename(bpy.data.filepath))[0]
document_basename == splitext_root(basename(filepath))

\* The output file put beside the document: output_dir taken from
\* os.path.dirname(bpy.data.filepath)
examples_output_file_beside_document(name) ==
    Slice(filepath, 1, rfind(filepath, "/") - 1) \o "/" \o name \o ".glb"

\* output_dir + "/" + filename_without_extension + ".glb", output_dir = os.getcwd()
examples_output_file(name) == cwd \o "/" \o name \o ".glb"

\* The file name of the document and the choice of a second export
ExamplesExportName ==
    /\ Launch(ExamplesExport, "export_glb")
    /\ filename_without_extension' = document_basename
    /\ export_gltf' = startswith(document_basename, "Test")
    /\ stdout' = <<document_basename>>
    /\ calls' = <<>>
    /\ exported' = <<>>
    /\ UNCHANGED <<cwd, filepath, objects, meshes, materials, active, runs,
                   result, prev>>

\* output_file and export("GLB", output_file)
ExamplesExportGlb ==
    /\ script = ExamplesExport
    /\ pc = "export_glb"
    /\ output_file' = examples_output_file(filename_without_extension)
    /\ stdout' = Append(stdout, "Output File: " \o output_file')
    /\ export_scene_gltf("GLB", output_file')
    /\ pc' = "export_gltf"
    /\ UNCHANGED <<cwd, filepath, objects, meshes, materials, active, script,
                   axis_call, z, x, filename_without_extension, export_gltf,
                   cells, runs, result, prev>>

\* if export_gltf: export("GLTF_SEPARATE", output_file)
ExamplesExportGltf ==
    /\ script = ExamplesExport
    /\ pc = "export_gltf"
    /\ IF export_gltf
       THEN export_scene_gltf("GLTF_SEPARATE", output_file)
       ELSE UNCHANGED <<exported, calls>>
    /\ stdout' = Append(stdout, "### FINISHED ###")
    /\ pc' = "done"
    /\ UNCHANGED <<cwd, filepath, objects, meshes, materials, active, script,
                   axis_call, z, x, filename_without_extension, output_file,
                   export_gltf, cells, runs, result, prev>>

-----------------------------------------------------------------------------
(* Assets/Models/blender_gltf_export.py *)

ModelsExport == "Assets/Models/blender_gltf_export.py"

\* export_path = bpy.data.filepath.replace(".blend", ".glb")
models_export_path == replace(filepath, ".blend", ".glb")

\* The whole script
ModelsExportGlb ==
    /\ Launch(ModelsExport, "done")
    /\ filename_without_extension' = None
    /\ export_gltf' = FALSE
    /\ exported' = <<[export_format |-> "GLB", filepath |-> models_export_path]>>
    /\ calls' = <<"export_scene.gltf">>
    /\ stdout' = <<>>
    /\ UNCHANGED <<cwd, filepath, objects, meshes, materials, active, runs,
                   result, prev>>

-----------------------------------------------------------------------------

Next ==
    \/ PbrGridMain
    \/ PbrGridClear
    \/ PbrGridAxisCell
    \/ PbrGridExport
    \/ SphereGenSettings
    \/ SphereGenClear
    \/ SphereGenCell
    \/ SphereGenExport
    \/ ExamplesExportName
    \/ ExamplesExportGlb
    \/ ExamplesExportGltf
    \/ ModelsExportGlb

Spec == Init /\ [][Next]_vars

-----------------------------------------------------------------------------
(* Properties *)

Generators == {PbrGrid, SphereGen}

\* The entries per axis and the number of grids of the running generator
N == IF script = PbrGrid THEN entries_per_axis ELSE entries

Grids == IF script = PbrGrid THEN {1, 2} ELSE {1}

\* The generator has left its loops
GridsGenerated == script \in Generators /\ pc \in {"export", "done"}

\* Every cell of every grid is there
EveryCellGenerated ==
    \A a \in Grids : \A xx \in 0..(N - 1) : \A zz \in 0..(N - 1) :
        \E c \in cells : c.axis = a /\ c.x = xx /\ c.z = zz

MaterialNamed(name) == CHOOSE m \in materials : m.name = name

ObjectNamed(name) == CHOOSE o \in objects : o.name = name

\* C1: once the grids are generated, every cell (x, z) of every grid has a
\* material whose roughness is 0.0 for z = 0, 1.0 for z = N-1 and z/10 in
\* between (in tenths: 0, 10, z), whatever x is.
RoughnessOfEveryCell ==
    GridsGenerated =>
        /\ EveryCellGenerated
        /\ \A c \in cells :
              MaterialNamed(c.material).roughness =
                  (IF c.z = 0 THEN 0 ELSE IF c.z = N - 1 THEN 10 ELSE c.z)

RoughnessWitness ==
    /\ script = PbrGrid
    /\ pc = "done"
    /\ \E c \in cells : c.x = 3 /\ c.z = 7 /\ c.axis = 2
                        /\ MaterialNamed(c.material).roughness = 7
    /\ \E c \in cells : c.x = 3 /\ c.z = 10
                        /\ MaterialNamed(c.material).roughness = 10

\* C2: once the grids are generated, every cell (x, z) of every grid has a
\* material whose metallic value is 1.0 for x = 0, 0.0 for x = N-1 and
\* 1.0 - x/10 in between (in tenths: 10, 0, 10 - x), whatever z is.
MetallicOfEveryCell ==
    GridsGenerated =>
        /\ EveryCellGenerated
        /\ \A c \in cells :
              MaterialNamed(c.material).metallic =
                  (IF c.x = 0 THEN 10 ELSE IF c.x = N - 1 THEN 0 ELSE 10 - c.x)

MetallicWitness ==
    /\ script = SphereGen
    /\ pc = "done"
    /\ \E c \in cells : c.x = 3 /\ c.z = 7
                        /\ MaterialNamed(c.material).metallic = 7
    /\ \E c \in cells : c.x = 0 /\ c.z = 4
                        /\ MaterialNamed(c.material).metallic = 10

\* p is a file directly inside directory d
InDirectory(p, d) == startswith(p, d \o "/") /\ rfind(p, "/") = Len(d) + 1

\* C3 (as claimed): when the Examples export script has finished, a document
\* whose base name starts with "Test" has been exported exactly twice, as GLB
\* to <cwd>/<base>.glb and as GLTF_SEPARATE to <cwd>/<base>.gltf; any other
\* document exactly once, as GLB to <cwd>/<base>.glb.
DualExportRule ==
    (script = ExamplesExport /\ pc = "done") =>
        LET base == document_basename
            glb == [export_format |-> "GLB",
                    filepath |-> cwd \o "/" \o base \o ".glb"]
            gltf == [export_format |-> "GLTF_SEPARATE",
                     filepath |-> cwd \o "/" \o base \o ".gltf"]
        IN IF startswith(base, "Test")
           THEN /\ Len(exported) = 2
                /\ \E i \in 1..2 : exported[i] = glb
                /\ \E i \in 1..2 : exported[i] = gltf
           ELSE exported = <<glb>>

OnlyExtensionBlend(p) ==
    /\ Len(p) >= 6
    /\ \A i \in 1..(Len(p) - 5) :
          (SubSeq(p, i, i + 5) = ".blend") <=> (i = Len(p) - 5)

ClearLeavesNothing ==
    (script \in Generators /\ pc \in {"axis", "generate"} /\ cells = {}) =>
        objects = {} /\ meshes = {} /\ materials = {}

\* C6 (as claimed): when a generator script has run twice in succession, the
\* second run leaves the scene with the objects of the first: the same names,
\* the same locations, the same material names.
SecondRunSameScene ==
    (pc = "done" /\ script \in Generators /\ result.script = script
       /\ prev.script = script)
        => result.scene = prev.scene

\* C7: within one grid, two different cells are asked to be created under
\* different object, mesh and material names, "Sphere_x{x}_z{z}" and
\* "Material_x{x}_z{z}".
NamesUniqueInGrid ==
    GridsGenerated =>
        /\ EveryCellGenerated
        /\ \A c \in cells : \A d \in cells :
              (c.axis = d.axis /\ <<c.x, c.z>> # <<d.x, d.z>>) =>
                  /\ c.object_name # d.object_name
                  /\ c.mesh_name # d.mesh_name
                  /\ c.material_name # d.material_name

NamesWitness ==
    /\ script = SphereGen
    /\ pc = "done"
    /\ \E c \in cells : /\ c.x = 10 /\ c.z = 1
                        /\ c.object_name = "Sphere_x10_z1"
                        /\ c.material_name = "Material_x10_z1"
    /\ \E c \in cells : /\ c.x = 1 /\ c.z = 10
                        /\ c.object_name = "Sphere_x1_z10"

\* Coordinate k of the object of cell (xx, zz) of grid a
CellLocation(a, xx, zz, k) ==
    LET c == CHOOSE d \in cells : d.axis = a /\ d.x = xx /\ d.z = zz
    IN ObjectNamed(c.object).location[k]

RECURSIVE RowSum(_, _, _, _)
\* The sum of coordinate k over the cells (0, zz) .. (xx, zz) of grid a
RowSum(a, xx, zz, k) ==
    IF xx < 0 THEN 0
    ELSE CellLocation(a, xx, zz, k) + RowSum(a, xx - 1, zz, k)

RECURSIVE GridSum(_, _, _)
\* The sum of coordinate k over the rows 0 .. zz of grid a
GridSum(a, zz, k) ==
    IF zz < 0 THEN 0
    ELSE RowSum(a, N - 1, zz, k) + GridSum(a, zz - 1, k)

\* C8: every cell's object is at x = (x - N/2)*spacing + spacing/2 and
\* z = (z - N/2)*spacing + spacing/2, and over the N*N cells of a grid the
\* x-locations sum to 0 and the z-locations sum to 0 (locations in quarters,
\* spacing 10: twice the location is (2x - N)*10 + 10).
GridCentered ==
    GridsGenerated =>
        /\ EveryCellGenerated
        /\ \A c \in cells :
              LET loc == ObjectNamed(c.object).location
              IN /\ 2 * loc[1] = (2 * c.x - N) * 10 + 10
                 /\ 2 * loc[3] = (2 * c.z - N) * 10 + 10
        /\ \A a \in Grids :
              /\ Cardinality({c \in cells : c.axis = a}) = N * N
              /\ GridSum(a, N - 1, 1) = 0
              /\ GridSum(a, N - 1, 3) = 0

CenteredWitness ==
    /\ script = PbrGrid
    /\ pc = "done"
    /\ \E c \in cells : /\ c.x = 0 /\ c.z = 0 /\ c.axis = 1
                        /\ ObjectNamed(c.object).location = <<-50, 20, -50>>
    /\ Cardinality({c \in cells : c.axis = 2}) = 121

\* C9: in a run of a generator script the host operations come in the order
\* clear, then the creation of every cell of every grid, then the export: the
\* delete is the first operation and the only one of its kind, every object
\* is created after it, and the export is the last operation, after all
\* 2 * 11 * 11 (pbr_grid.py) or 11 * 11 (pbr_sphere_gen.py) objects.
ClearGenerateExport ==
    script \in Generators =>
        /\ \A i \in 1..Len(calls) :
              /\ calls[i] = "object.delete" <=> i = 1
              /\ calls[i] = "export_scene.gltf" =>
                    /\ i = Len(calls)
                    /\ i = (IF script = PbrGrid THEN 2 * 11 * 11 ELSE 11 * 11) + 2
                    /\ \A j \in 2..(i - 1) : calls[j] = "objects.new"
        /\ Cardinality(cells) = Len(SelectSeq(calls, LAMBDA e : e = "objects.new"))
        /\ exported # <<>> => EveryCellGenerated
        /\ cells # {} => calls[1] = "object.delete"

OrderWitness ==
    /\ script = PbrGrid
    /\ pc = "done"
    /\ Len(calls) = 244
    /\ calls[1] = "object.delete"
    /\ calls[243] = "objects.new"
    /\ calls[244] = "export_scene.gltf"
    /\ Len(exported) = 1

\* C10: when pbr_grid.py has finished, every cell of the cube grid (the
\* second call of axis()) was asked to be created under the names asked for
\* the same cell of the sphere grid (the first call), "Sphere_x{x}_z{z}" and
\* "Material_x{x}_z{z}", with no clear in between; each name was asked for
\* exactly twice in the run, so two cells of the scene share their names.
BothGridsAskSameNames ==
    (script = PbrGrid /\ pc = "done") =>
        /\ \A c \in cells : c.axis = 2 =>
              \E d \in cells :
                  /\ d.axis = 1 /\ d.x = c.x /\ d.z = c.z
                  /\ d.object_name = c.object_name
                  /\ d.mesh_name = c.mesh_name
                  /\ d.material_name = c.material_name
        /\ \A c \in cells :
              /\ Cardinality({d \in cells : d.object_name = c.object_name}) = 2
              /\ Cardinality({d \in cells : d.mesh_name = c.mesh_name}) = 2
              /\ Cardinality({d \in cells : d.material_name = c.material_name}) = 2
        /\ Len(SelectSeq(calls, LAMBDA e : e = "object.delete")) = 1
        /\ \E c \in cells : \E d \in cells :
              c # d /\ c.object_name = d.object_name
                    /\ c.material_name = d.material_name

SameNamesWitness ==
    /\ script = PbrGrid
    /\ pc = "done"
    /\ \E c \in cells : \E d \in cells :
          /\ c.axis = 1 /\ d.axis = 2 /\ c.x = 4 /\ d.x = 4 /\ c.z = 9 /\ d.z = 9
          /\ c.object_name = "Sphere_x4_z9" /\ d.object_name = "Sphere_x4_z9"
          /\ c.material_name = "Material_x4_z9"
          /\ d.material_name = "Material_x4_z9"
          /\ c.object # d.object

====
